---- MODULE Spec2Model ----
(***************************************************************************)
(* Response-body decoding layer of the nntp client package:                *)
(*   - yencReader       (src/yenc_reader.go)                               *)
(*   - zlibDotResponse  (src/zlib_dot_reader.go, lines 1-47)               *)
(*   - the overview fallback engine, the multiline body reader and the     *)
(*     overview record parser, whose implementations are not part of the   *)
(*     available sources; they are modelled from their descriptions and    *)
(*     compared with the transcripts, bodies and records the package's     *)
(*     tests expect (src/zlib_dot_reader.go, lines 49-408).                *)
(* Bytes are naturals 0..255; a stream or a line is a sequence of bytes.   *)
(***************************************************************************)
EXTENDS Integers, Sequences, FiniteSets, TLC

VARIABLES
    \* ---- yencReader and the stream it reads (y.r)
    stream,          \* every byte the underlying reader will ever deliver
    pos,             \* number of bytes of stream consumed through y.r
    readHeader,      \* y.readHeader
    awaitingSpecial, \* y.awaitingSpecial
    eof,             \* y.eof
    buf,             \* y.buf
    hung,            \* TRUE once Close() spins in its loop without ever returning
    ylast,           \* observation of the last yencReader call
    delivered,       \* the bytes the Read calls have returned so far, in order
    closed,          \* TRUE once Close() was called
    plain,           \* the bytes the sender encoded, when the stream was made by the encoder
    \* ---- zlibDotResponse and the clear stream it shares with the connection
    wire,            \* the bytes the server sends: compressed part, terminator, what follows
    cpos,            \* number of bytes consumed from the clear stream
    zopen,           \* "none", "open" (newZlibDotResponse returned a reader) or "failed"
    zerr,            \* the sticky error of the zlib reader z.z
    zdata,           \* the bytes z.z has decompressed so far (what its checksum covers)
    rbuf,            \* z.Reader: decompressed bytes buffered and not yet handed out
    rerr,            \* z.Reader: error kept for the next read
    dotWasRead,      \* z.dotWasRead
    zlast,           \* observation of the last zlibDotResponse call
    dotReads,        \* number of lines readDot has asked the clear stream for
    \* ---- the connection as the overview engine uses it
    xzver,           \* capability cache entry of the compressed-overview command
    asked,           \* the ranges of the Overview requests made so far
    sent,            \* the commands written to the connection, in order
    answers,         \* the status codes read from the connection, in order
    olast,           \* observation of the last Overview request
    \* ---- the multiline body reader and the lines of the body it reads
    article,         \* the content lines the sender meant and the lines it put on the wire
    lpos,            \* number of lines of the wire the reader has consumed
    dbody,           \* the lines handed to the caller, in order
    dotEOF,          \* TRUE once the terminator line was consumed
    dlast,           \* observation of the last body reader call
    \* ---- the overview record parser
    oline,           \* the line of an overview response handed to the parser
    orec             \* what the parser made of it

yvars == <<stream, pos, readHeader, awaitingSpecial, eof, buf, hung, ylast,
          delivered, closed, plain>>
zvars == <<wire, cpos, zopen, zerr, zdata, rbuf, rerr, dotWasRead, zlast, dotReads>>

ovars == <<xzver, asked, sent, answers, olast>>

dvars == <<article, lpos, dbody, dotEOF, dlast>>
pvars == <<oline, orec>>

vars == <<yvars, zvars, ovars, dvars, pvars>>

----------------------------------------------------------------------------
\* Bounds of the model

\* most lines of one yEnc stream, not counting what follows them
MaxLines == 3
\* largest caller buffer handed to Read
MaxP == 2
\* most blocks of one compressed stream
MaxBlocks == 2
\* most Overview requests on one connection
MaxRequests == 3
\* longest data line handed to decode on its own
MaxLen == 4
\* most bytes the sender encodes into one part
MaxBytes == 2
\* most content lines of a dot-terminated body
MaxBodyLines == 2
\* most extra columns of a generated overview line
MaxExtra == 2

----------------------------------------------------------------------------
\* Byte strings

Min(a, b) == IF a < b THEN a ELSE b

CRLF == <<13, 10>>
JustLF == <<10>>

\* "=ybegin"
YBEGIN == <<61, 121, 98, 101, 103, 105, 110>>
\* "=yend"
YEND == <<61, 121, 101, 110, 100>>

NilErr == [kind |-> "nil", line |-> <<>>]
EOFErr == [kind |-> "EOF", line |-> <<>>]
FormatErr(line) == [kind |-> "format", line |-> line]

\* bufio.Reader.ReadBytes('\n') / ReadString('\n') on the bytes of s after
\* position p: the bytes up to and including the first LF, or, when there is
\* none, everything that is left together with io.EOF.
ReadBytes(s, p) ==
    LET lfs == {i \in (p + 1)..Len(s) : s[i] = 10}
    IN  IF lfs = {}
        THEN [line |-> SubSeq(s, p + 1, Len(s)), err |-> EOFErr, pos |-> Len(s)]
        ELSE LET i == CHOOSE k \in lfs : \A m \in lfs : k <= m
             IN  [line |-> SubSeq(s, p + 1, i), err |-> NilErr, pos |-> i]

\* bytes.TrimRight(line, "\r\n") / strings.TrimRight(line, "\r\n")
TrimRight(line) ==
    LET keep == {i \in 1..Len(line) : line[i] \notin {13, 10}}
    IN  IF keep = {} THEN <<>>
        ELSE SubSeq(line, 1, CHOOSE k \in keep : \A m \in keep : m <= k)

\* len(line) >= len(pre) && string(line[:len(pre)]) == pre
HasPrefix(line, pre) ==
    Len(line) >= Len(pre) /\ SubSeq(line, 1, Len(pre)) = pre

----------------------------------------------------------------------------
\* yencReader

\* subtraction that stops at 0 instead of wrapping around
Sub8Saturating(b, k) == IF b >= k THEN b - k ELSE 0

\* uint8 subtraction
Sub8(b, k) == (b + 256 - k) % 256

\* the decode loop from index i on, with the escape bit esc; out is the part
\* of the line already rewritten
RECURSIVE decodeFrom(_, _, _, _)
decodeFrom(line, i, esc, out) ==
    IF i > Len(line) THEN [out |-> out, esc |-> esc]
    ELSE IF esc THEN decodeFrom(line, i + 1, FALSE, Append(out, Sub8(Sub8(line[i], 42), 64)))
    ELSE IF line[i] = 61 THEN decodeFrom(line, i + 1, TRUE, out)
    ELSE decodeFrom(line, i + 1, FALSE, Append(out, Sub8(line[i], 42)))

\* decode with the escape bit forgotten at the start of every line
decodeResetEscape(line, esc) == decodeFrom(line, 1, FALSE, <<>>)

\* decode whose result keeps the length of the line: the decoded bytes
\* followed by what the rewriting in place left behind them
decodeUntruncated(line, esc) ==
    LET d == decodeFrom(line, 1, esc, <<>>)
    IN  [out |-> d.out \o SubSeq(line, Len(d.out) + 1, Len(line)), esc |-> d.esc]

\* yencReader.decode: the decoded line and the new y.awaitingSpecial
decode(line, esc) == decodeFrom(line, 1, esc, <<>>)

\* the yencReader as a record of its fields (r is the position in stream)
Y == [r |-> pos, readHeader |-> readHeader, awaitingSpecial |-> awaitingSpecial,
      eof |-> eof, buf |-> buf]

\* nextLine that accepts any first line as the header
nextLineAnyHeader(y) ==
    IF y.eof THEN [y |-> y, err |-> EOFErr, line |-> <<>>, kind |-> "none"]
    ELSE
    LET rd == ReadBytes(stream, y.r)
        line == TrimRight(rd.line)
        y1 == [y EXCEPT !.r = rd.pos]
    IN  IF rd.err # NilErr THEN [y |-> y1, err |-> rd.err, line |-> rd.line, kind |-> "ioerr"]
        ELSE IF ~y.readHeader THEN
            [y |-> [y1 EXCEPT !.readHeader = TRUE], err |-> NilErr, line |-> line, kind |-> "header"]
        ELSE IF HasPrefix(line, YEND) THEN
            [y |-> [y1 EXCEPT !.eof = TRUE], err |-> EOFErr, line |-> line, kind |-> "yend"]
        ELSE LET d == decode(line, y.awaitingSpecial)
             IN  [y |-> [y1 EXCEPT !.buf = d.out, !.awaitingSpecial = d.esc],
                  err |-> NilErr, line |-> line, kind |-> "data"]

\* nextLine that looks for the trailer before it looks for the header
nextLineYendFirst(y) ==
    IF y.eof THEN [y |-> y, err |-> EOFErr, line |-> <<>>, kind |-> "none"]
    ELSE
    LET rd == ReadBytes(stream, y.r)
        line == TrimRight(rd.line)
        y1 == [y EXCEPT !.r = rd.pos]
    IN  IF rd.err # NilErr THEN [y |-> y1, err |-> rd.err, line |-> rd.line, kind |-> "ioerr"]
        ELSE IF HasPrefix(line, YEND) THEN
            [y |-> [y1 EXCEPT !.eof = TRUE], err |-> EOFErr, line |-> line, kind |-> "yend"]
        ELSE IF ~y.readHeader THEN
            IF HasPrefix(line, YBEGIN)
            THEN [y |-> [y1 EXCEPT !.readHeader = TRUE], err |-> NilErr, line |-> line, kind |-> "header"]
            ELSE [y |-> y1, err |-> FormatErr(line), line |-> line, kind |-> "badheader"]
        ELSE LET d == decode(line, y.awaitingSpecial)
             IN  [y |-> [y1 EXCEPT !.buf = d.out, !.awaitingSpecial = d.esc],
                  err |-> NilErr, line |-> line, kind |-> "data"]

\* yencReader.nextLine: the reader after the call, the error returned, the
\* line that was read and what it was taken for
nextLine(y) ==
    IF y.eof THEN [y |-> y, err |-> EOFErr, line |-> <<>>, kind |-> "none"]
    ELSE
    LET rd == ReadBytes(stream, y.r)
        line == TrimRight(rd.line)
        y1 == [y EXCEPT !.r = rd.pos]
    IN  IF rd.err # NilErr THEN [y |-> y1, err |-> rd.err, line |-> rd.line, kind |-> "ioerr"]
        ELSE IF ~y.readHeader THEN
            IF HasPrefix(line, YBEGIN)
            THEN [y |-> [y1 EXCEPT !.readHeader = TRUE], err |-> NilErr, line |-> line, kind |-> "header"]
            ELSE [y |-> y1, err |-> FormatErr(line), line |-> line, kind |-> "badheader"]
        ELSE IF HasPrefix(line, YEND) THEN
            [y |-> [y1 EXCEPT !.eof = TRUE], err |-> EOFErr, line |-> line, kind |-> "yend"]
        ELSE LET d == decode(line, y.awaitingSpecial)
             IN  [y |-> [y1 EXCEPT !.buf = d.out, !.awaitingSpecial = d.esc],
                  err |-> NilErr, line |-> line, kind |-> "data"]

\* a Close that reads one line and returns
closeOnce(y) == IF y.eof THEN [y |-> y, hung |-> FALSE] ELSE [y |-> nextLine(y).y, hung |-> FALSE]

\* the loop of yencReader.Close: the reader when the loop is left, or
\* hung = TRUE when it is never left (nextLine keeps failing without setting eof)
RECURSIVE closeLoop(_)
closeLoop(y) ==
    IF y.eof THEN [y |-> y, hung |-> FALSE]
    ELSE LET nl == nextLine(y)
         IN  IF nl.y = y THEN [y |-> y, hung |-> TRUE]
             ELSE closeLoop(nl.y)

\* what the model remembers of a call
Observed(op, p, y0, nl, n, out, err) ==
    [op |-> op, p |-> p, y0 |-> y0, kind |-> nl.kind, line |-> nl.line,
     n |-> n, out |-> out, err |-> err]

NoLine == [kind |-> "none", line |-> <<>>]

SetY(y) ==
    /\ pos' = y.r
    /\ readHeader' = y.readHeader
    /\ awaitingSpecial' = y.awaitingSpecial
    /\ eof' = y.eof
    /\ buf' = y.buf

\* a Read that fetches the next line as soon as fewer than len(p) bytes are
\* buffered, over what is still undelivered
ReadEager(p) ==
    /\ ~hung
    /\ LET y0 == Y
           nl == IF Len(y0.buf) < p THEN nextLine(y0)
                 ELSE [y |-> y0, err |-> NilErr, line |-> <<>>, kind |-> "none"]
       IN  IF nl.err # NilErr
           THEN /\ SetY(nl.y)
                /\ ylast' = Observed("Read", p, y0, nl, 0, <<>>, nl.err)
                /\ delivered' = delivered
           ELSE LET n == Min(p, Len(nl.y.buf))
                    y2 == [nl.y EXCEPT !.buf = SubSeq(nl.y.buf, n + 1, Len(nl.y.buf))]
                IN  /\ SetY(y2)
                    /\ ylast' = Observed("Read", p, y0, nl, n, SubSeq(nl.y.buf, 1, n), NilErr)
                    /\ delivered' = delivered \o SubSeq(nl.y.buf, 1, n)
    /\ UNCHANGED <<stream, hung, closed, plain, zvars, ovars, dvars, pvars>>

\* yencReader.Read(p) with len(p) = p
Read(p) ==
    /\ ~hung
    /\ LET y0 == Y
           nl == IF Len(y0.buf) = 0 THEN nextLine(y0)
                 ELSE [y |-> y0, err |-> NilErr, line |-> <<>>, kind |-> "none"]
       IN  IF nl.err # NilErr
           THEN /\ SetY(nl.y)
                /\ ylast' = Observed("Read", p, y0, nl, 0, <<>>, nl.err)
                /\ delivered' = delivered
           ELSE LET n == Min(p, Len(nl.y.buf))
                    y2 == [nl.y EXCEPT !.buf = SubSeq(nl.y.buf, n + 1, Len(nl.y.buf))]
                IN  /\ SetY(y2)
                    /\ ylast' = Observed("Read", p, y0, nl, n, SubSeq(nl.y.buf, 1, n), NilErr)
                    /\ delivered' = delivered \o SubSeq(nl.y.buf, 1, n)
    /\ UNCHANGED <<stream, hung, closed, plain, zvars, ovars, dvars, pvars>>

\* yencReader.Close()
Close ==
    /\ ~hung
    /\ LET y0 == Y
           c == closeLoop(y0)
       IN  /\ SetY(c.y)
           /\ hung' = c.hung
           /\ ylast' = Observed("Close", 0, y0, NoLine, 0, <<>>, NilErr)
    /\ closed' = TRUE
    /\ UNCHANGED <<stream, delivered, plain, zvars, ovars, dvars, pvars>>

----------------------------------------------------------------------------
\* The streams a yencReader is put on

\* "k=": the byte 'A' and a dangling escape marker, ended by a bare LF
LineKEq == <<107, 61>> \o JustLF
\* "=}k": the escaped byte 19 and the byte 'A'
LineEqBrace == <<61, 125, 107>> \o CRLF
\* "=yend " with a trailing field separator
LineYend == YEND \o <<32>> \o CRLF
LineYbegin == YBEGIN \o CRLF
\* an empty line
LineEmpty == CRLF

YLines == {LineYbegin, LineYend, LineKEq, LineEqBrace, LineEmpty}

\* what may follow these lines: nothing, a line cut short by the end of the
\* stream, or the "." line that ends the article body
YTails == {<<>>, YEND, <<46>> \o CRLF}

RECURSIVE Flatten(_)
Flatten(ls) == IF ls = <<>> THEN <<>> ELSE Head(ls) \o Flatten(Tail(ls))

YStreams ==
    {Flatten(ls) \o t : ls \in UNION {[1..n -> YLines] : n \in 0..MaxLines}, t \in YTails}

YInit ==
    /\ stream \in YStreams
    /\ pos = 0
    /\ readHeader = FALSE
    /\ awaitingSpecial = FALSE
    /\ eof = FALSE
    /\ buf = <<>>
    /\ hung = FALSE
    /\ ylast = Observed("none", 0, Y, NoLine, 0, <<>>, NilErr)
    /\ delivered = <<>>
    /\ closed = FALSE
    /\ plain = <<>>

YNext ==
    \/ \E p \in 1..MaxP : Read(p)
    \/ Close

\* The sender's side of yEnc: every byte is offset by 42 modulo 256, and a
\* result that is NUL, LF, CR or '=' is written as '=' followed by the result
\* offset by a further 64 modulo 256.
encodeByte(b) ==
    LET e == (b + 42) % 256
    IN  IF e \in {0, 10, 13, 61} THEN <<61, (e + 64) % 256>> ELSE <<e>>
RECURSIVE encode(_)
encode(b) == IF b = <<>> THEN <<>> ELSE encodeByte(Head(b)) \o encode(Tail(b))

\* the bytes of s from index from on, cut into lines after every index in cuts
RECURSIVE LinesOf(_, _, _)
LinesOf(s, from, cuts) ==
    IF from > Len(s) THEN <<>>
    ELSE LET nxt == {c \in cuts : c >= from}
         IN  IF nxt = {} THEN <<SubSeq(s, from, Len(s))>>
             ELSE LET c == CHOOSE k \in nxt : \A m \in nxt : k <= m
                  IN  <<SubSeq(s, from, c)>> \o LinesOf(s, c + 1, cuts)
\* the part a sender makes of the bytes b: header, the encoded bytes in lines
\* cut after the indices in cuts, trailer
PartOf(b, cuts) ==
    LET ls == LinesOf(encode(b), 1, cuts)
    IN  LineYbegin \o Flatten([i \in 1..Len(ls) |-> ls[i] \o CRLF]) \o LineYend

\* the bytes whose encoding is escaped (214, 224, 227, 19: NUL, LF, CR, '=')
\* and the bytes 'H' and 'i'
PlainBytes == {214, 224, 227, 19, 72, 105}
PlainSeqs == UNION {[1..n -> PlainBytes] : n \in 0..MaxBytes}

RoundTripInit ==
    /\ plain \in PlainSeqs
    /\ \E cuts \in SUBSET (1..(Len(encode(plain)) - 1)) : stream = PartOf(plain, cuts)
    /\ pos = 0
    /\ readHeader = FALSE
    /\ awaitingSpecial = FALSE
    /\ eof = FALSE
    /\ buf = <<>>
    /\ hung = FALSE
    /\ ylast = Observed("none", 0, Y, NoLine, 0, <<>>, NilErr)
    /\ delivered = <<>>
    /\ closed = FALSE

\* Streams made to exercise decode: the header, then either nothing or the
\* line "=" (which leaves the escape bit set), then one data line of up to
\* MaxLen bytes out of ')', '=' and '}', then the trailer.
DataBytes == {41, 61, 125}
DataLines == UNION {[1..n -> DataBytes] : n \in 0..MaxLen}
DecodeStreams ==
    {LineYbegin \o pre \o line \o CRLF \o LineYend :
         pre \in {<<>>, <<61>> \o CRLF}, line \in DataLines}

DecodeInit ==
    /\ stream \in DecodeStreams
    /\ pos = 0
    /\ readHeader = FALSE
    /\ awaitingSpecial = FALSE
    /\ eof = FALSE
    /\ buf = <<>>
    /\ hung = FALSE
    /\ ylast = Observed("none", 0, Y, NoLine, 0, <<>>, NilErr)
    /\ delivered = <<>>
    /\ closed = FALSE
    /\ plain = <<>>


----------------------------------------------------------------------------
\* zlibDotResponse.  The decompressor is compress/zlib over the *bufio.Reader
\* clear, which is an io.ByteReader, so that it takes from clear the bytes it
\* decodes and no others.  The compressed streams are zlib streams (RFC 1950)
\* made of stored deflate blocks (RFC 1951, BTYPE 00); compressed block types
\* do not occur in the streams considered.  A Read of the decompressor decodes
\* up to the end of the final block (the bodies are far smaller than the
\* deflate window and the 4096 bytes of z.Reader).

UnexpectedEOF == [kind |-> "unexpectedEOF", line |-> <<>>]
CorruptInput == [kind |-> "corrupt", line |-> <<>>]
ErrChecksum == [kind |-> "checksum", line |-> <<>>]
ErrHeader == [kind |-> "header", line |-> <<>>]
ProtocolError(line) == [kind |-> "protocol", line |-> line]

\* the errors of the decompression filter
DecodeErrors == {UnexpectedEOF, CorruptInput, ErrChecksum, ErrHeader}

\* the clear stream
clear == wire.z \o wire.term \o wire.next

RECURSIVE SumSeq(_)
SumSeq(d) == IF d = <<>> THEN 0 ELSE Head(d) + SumSeq(Tail(d))

\* Adler-32 of d, as the four big-endian bytes of the zlib trailer
Adler32(d) ==
    LET a == (1 + SumSeq(d)) % 65521
        b == SumSeq([i \in 1..Len(d) |-> (1 + SumSeq(SubSeq(d, 1, i))) % 65521]) % 65521
    IN  <<b \div 256, b % 256, a \div 256, a % 256>>

\* io.ReadFull of n bytes from s after position p
ReadFull(s, p, n) ==
    IF p + n <= Len(s)
    THEN [data |-> SubSeq(s, p + 1, p + n), pos |-> p + n, ok |-> TRUE]
    ELSE [data |-> SubSeq(s, p + 1, Len(s)), pos |-> Len(s), ok |-> FALSE]

\* the deflate decompressor from position p on: blocks are decoded until the
\* final one is finished (err = io.EOF) or an error stops the decoder; out is
\* what was decompressed, pos the position reached
RECURSIVE inflate(_, _, _)
inflate(s, p, out) ==
    IF p >= Len(s) THEN [out |-> out, pos |-> p, err |-> UnexpectedEOF]
    ELSE
    LET hdr == s[p + 1]
        final == hdr % 2 = 1
        btype == (hdr \div 2) % 4
        ln == ReadFull(s, p + 1, 4)
    IN  IF btype # 0 THEN [out |-> out, pos |-> p + 1, err |-> CorruptInput]
        ELSE IF ~ln.ok THEN [out |-> out, pos |-> ln.pos, err |-> UnexpectedEOF]
        ELSE
        LET n == ln.data[1] + 256 * ln.data[2]
            nn == ln.data[3] + 256 * ln.data[4]
            d == ReadFull(s, ln.pos, n)
        IN  IF nn # 65535 - n THEN [out |-> out, pos |-> ln.pos, err |-> CorruptInput]
            ELSE IF ~d.ok THEN [out |-> out \o d.data, pos |-> d.pos, err |-> UnexpectedEOF]
            ELSE IF final THEN [out |-> out \o d.data, pos |-> d.pos, err |-> EOFErr]
            ELSE inflate(s, d.pos, out \o d.data)

\* a zlib reader that takes the end of the deflate data for the end of the
\* stream and leaves the four checksum bytes unread
zlibReadNoTrailer(s, p, err, sofar) ==
    IF err # NilErr THEN [out |-> <<>>, pos |-> p, err |-> err, data |-> sofar]
    ELSE LET f == inflate(s, p, <<>>)
         IN  [out |-> f.out, pos |-> f.pos, err |-> f.err, data |-> sofar \o f.out]

\* (*zlib.reader).Read into a buffer larger than the body: the bytes returned,
\* the position reached in s, the new sticky error and the bytes decompressed
\* so far
zlibRead(s, p, err, sofar) ==
    IF err # NilErr THEN [out |-> <<>>, pos |-> p, err |-> err, data |-> sofar]
    ELSE
    LET f == inflate(s, p, <<>>)
        all == sofar \o f.out
        sum == ReadFull(s, f.pos, 4)
    IN  IF f.err # EOFErr THEN [out |-> f.out, pos |-> f.pos, err |-> f.err, data |-> all]
        ELSE IF ~sum.ok THEN [out |-> f.out, pos |-> sum.pos, err |-> UnexpectedEOF, data |-> all]
        ELSE IF sum.data # Adler32(all)
             THEN [out |-> f.out, pos |-> sum.pos, err |-> ErrChecksum, data |-> all]
        ELSE [out |-> f.out, pos |-> sum.pos, err |-> EOFErr, data |-> all]

\* zlib.NewReader: the two header bytes are read and checked
zlibNewReader(s, p) ==
    LET h == ReadFull(s, p, 2)
    IN  IF ~h.ok THEN [pos |-> h.pos, err |-> UnexpectedEOF]
        ELSE IF h.data[1] % 16 # 8 \/ h.data[1] \div 16 > 7
                \/ (256 * h.data[1] + h.data[2]) % 31 # 0
                \/ (h.data[2] \div 32) % 2 = 1
             THEN [pos |-> h.pos, err |-> ErrHeader]
        ELSE [pos |-> h.pos, err |-> NilErr]

\* (*zlib.reader).Close: the error it returns and the sticky error it leaves
zlibClose(err) ==
    IF err \notin {NilErr, EOFErr} THEN [ret |-> err, err |-> err]
    ELSE [ret |-> NilErr, err |-> NilErr]

\* readDot that accepts every line beginning with "."
readDotPrefix(s, p, was) ==
    IF was THEN [err |-> NilErr, pos |-> p, was |-> TRUE, reads |-> 0]
    ELSE LET rd == ReadBytes(s, p)
         IN  IF rd.err # NilErr THEN [err |-> rd.err, pos |-> rd.pos, was |-> TRUE, reads |-> 1]
             ELSE IF ~HasPrefix(rd.line, <<46>>)
                  THEN [err |-> ProtocolError(rd.line), pos |-> rd.pos, was |-> TRUE, reads |-> 1]
             ELSE [err |-> NilErr, pos |-> rd.pos, was |-> TRUE, reads |-> 1]

\* readDot that reads a line on every call
readDotEveryTime(s, p, was) ==
    LET rd == ReadBytes(s, p)
    IN  IF rd.err # NilErr THEN [err |-> rd.err, pos |-> rd.pos, was |-> TRUE, reads |-> 1]
        ELSE IF TrimRight(rd.line) # <<46>>
             THEN [err |-> ProtocolError(rd.line), pos |-> rd.pos, was |-> TRUE, reads |-> 1]
        ELSE [err |-> NilErr, pos |-> rd.pos, was |-> TRUE, reads |-> 1]

\* zlibDotResponse.readDot: the error returned, the position in the clear
\* stream, z.dotWasRead and the number of ReadString calls made
readDot(s, p, was) ==
    IF was THEN [err |-> NilErr, pos |-> p, was |-> TRUE, reads |-> 0]
    ELSE LET rd == ReadBytes(s, p)
         IN  IF rd.err # NilErr THEN [err |-> rd.err, pos |-> rd.pos, was |-> TRUE, reads |-> 1]
             ELSE IF TrimRight(rd.line) # <<46>>
                  THEN [err |-> ProtocolError(rd.line), pos |-> rd.pos, was |-> TRUE, reads |-> 1]
             ELSE [err |-> NilErr, pos |-> rd.pos, was |-> TRUE, reads |-> 1]

ZObserved(op, p, n, out, err, zret) ==
    [op |-> op, p |-> p, n |-> n, out |-> out, err |-> err, zret |-> zret,
     cpos0 |-> cpos, dot0 |-> dotWasRead, rbuf0 |-> rbuf, zerr0 |-> zerr]

\* newZlibDotResponse(clear)
newZlibDotResponse ==
    /\ zopen = "none"
    /\ LET z == zlibNewReader(clear, cpos)
       IN  /\ cpos' = z.pos
           /\ zopen' = IF z.err = NilErr THEN "open" ELSE "failed"
           /\ zlast' = ZObserved("new", 0, 0, <<>>, z.err, NilErr)
    /\ UNCHANGED <<wire, zerr, zdata, rbuf, rerr, dotWasRead, dotReads, yvars, ovars, dvars, pvars>>

\* z.Reader.Read(p) with len(p) = p: a read of the decompressed output
\* through the bufio.Reader over z.z
ZRead(p) ==
    /\ zopen = "open" /\ ~dotWasRead
    /\ IF rbuf # <<>>
       THEN /\ rbuf' = SubSeq(rbuf, Min(p, Len(rbuf)) + 1, Len(rbuf))
            /\ zlast' = ZObserved("Read", p, Min(p, Len(rbuf)), SubSeq(rbuf, 1, Min(p, Len(rbuf))), NilErr, NilErr)
            /\ UNCHANGED <<cpos, zerr, zdata, rerr>>
       ELSE IF rerr # NilErr
       THEN /\ rerr' = NilErr
            /\ zlast' = ZObserved("Read", p, 0, <<>>, rerr, NilErr)
            /\ UNCHANGED <<cpos, zerr, zdata, rbuf>>
       ELSE LET z == zlibRead(clear, cpos, zerr, zdata)
                n == Min(p, Len(z.out))
            IN  /\ cpos' = z.pos
                /\ zerr' = z.err
                /\ zdata' = z.data
                /\ rbuf' = SubSeq(z.out, n + 1, Len(z.out))
                /\ rerr' = IF z.out = <<>> THEN NilErr ELSE z.err
                /\ zlast' = IF z.out = <<>>
                            THEN ZObserved("Read", p, 0, <<>>, z.err, NilErr)
                            ELSE ZObserved("Read", p, n, SubSeq(z.out, 1, n), NilErr, NilErr)
    /\ UNCHANGED <<wire, zopen, dotWasRead, dotReads, yvars, ovars, dvars, pvars>>

\* zlibDotResponse.Close()
ZClose ==
    /\ zopen = "open"
    /\ LET zc == zlibClose(zerr)
           rd == readDot(clear, cpos, dotWasRead)
       IN  /\ zerr' = zc.err
           /\ cpos' = rd.pos
           /\ dotWasRead' = rd.was
           /\ dotReads' = dotReads + rd.reads
           /\ zlast' = ZObserved("Close", 0, 0, <<>>, rd.err, zc.ret)
    /\ UNCHANGED <<wire, zopen, zdata, rbuf, rerr, yvars, ovars, dvars, pvars>>

----------------------------------------------------------------------------
\* The responses a zlibDotResponse is put on

\* one stored deflate block
StoredBlock(final, d) ==
    <<(IF final THEN 1 ELSE 0), Len(d) % 256, Len(d) \div 256,
      255 - (Len(d) % 256), 255 - (Len(d) \div 256)>> \o d

RECURSIVE StoredBlocks(_)
StoredBlocks(ds) ==
    IF Len(ds) = 1 THEN StoredBlock(TRUE, ds[1])
    ELSE StoredBlock(FALSE, Head(ds)) \o StoredBlocks(Tail(ds))

\* the zlib stream of the blocks ds: header 78 01, blocks, Adler-32
ZlibStream(ds) == <<120, 1>> \o StoredBlocks(ds) \o Adler32(Flatten(ds))

\* what one block holds: nothing, or the line "1" with its line feed
BlockBodies == {<<>>, <<49, 10>>}

BodySeqs == UNION {[1..n -> BlockBodies] : n \in 1..MaxBlocks}

ButLast(s, k) == SubSeq(s, 1, Len(s) - k)

\* the same stream with its last checksum byte changed
BadChecksum(z) == ButLast(z, 1) \o <<(z[Len(z)] + 1) % 256>>
\* the same stream with a wrong complement of the first block's length
BadLength(z) == [z EXCEPT ![6] = (z[6] + 1) % 256]
\* the same stream with a header the format does not allow
BadHeader(z) == [z EXCEPT ![2] = 2]

\* terminator lines: ".", with CR LF or LF alone; not a terminator: "..", ""
\* and "." cut off by the end of the stream; or no line at all
Terminators == {<<46>> \o CRLF, <<46>> \o JustLF, <<46, 46>> \o CRLF, CRLF, <<46>>, <<>>}
\* what follows: nothing, or the status line "2" of the next response
Followers == {<<>>, <<50>> \o CRLF}

ZWires ==
    {[z |-> ZlibStream(ds), body |-> Flatten(ds), kind |-> "valid", term |-> t, next |-> n] :
        ds \in BodySeqs, t \in Terminators, n \in Followers}
    \cup
    {[z |-> BadChecksum(ZlibStream(ds)), body |-> Flatten(ds), kind |-> "badsum", term |-> t, next |-> n] :
        ds \in BodySeqs, t \in {<<46>> \o CRLF, <<>>}, n \in Followers}
    \cup
    {[z |-> BadLength(ZlibStream(ds)), body |-> Flatten(ds), kind |-> "badlen", term |-> <<46>> \o CRLF, next |-> n] :
        ds \in BodySeqs, n \in Followers}
    \cup
    {[z |-> BadHeader(ZlibStream(ds)), body |-> Flatten(ds), kind |-> "badheader", term |-> <<46>> \o CRLF, next |-> <<>>] :
        ds \in BodySeqs}
    \cup
    {[z |-> ButLast(ZlibStream(ds), k), body |-> Flatten(ds), kind |-> "truncated", term |-> <<>>, next |-> <<>>] :
        ds \in BodySeqs, k \in {1, 5}}

ZInit ==
    /\ wire \in ZWires
    /\ cpos = 0
    /\ zopen = "none"
    /\ zerr = NilErr
    /\ zdata = <<>>
    /\ rbuf = <<>>
    /\ rerr = NilErr
    /\ dotWasRead = FALSE
    /\ zlast = [op |-> "none", p |-> 0, n |-> 0, out |-> <<>>, err |-> NilErr, zret |-> NilErr,
                cpos0 |-> 0, dot0 |-> FALSE, rbuf0 |-> <<>>, zerr0 |-> NilErr]
    /\ dotReads = 0

ZNext ==
    \/ newZlibDotResponse
    \/ \E p \in 1..MaxP : ZRead(p)
    \/ ZClose

\* no zlibDotResponse exists
ZIdle ==
    /\ wire = [z |-> <<>>, body |-> <<>>, kind |-> "none", term |-> <<>>, next |-> <<>>]
    /\ cpos = 0
    /\ zopen = "none"
    /\ zerr = NilErr
    /\ zdata = <<>>
    /\ rbuf = <<>>
    /\ rerr = NilErr
    /\ dotWasRead = FALSE
    /\ zlast = [op |-> "none", p |-> 0, n |-> 0, out |-> <<>>, err |-> NilErr, zret |-> NilErr,
                cpos0 |-> 0, dot0 |-> FALSE, rbuf0 |-> <<>>, zerr0 |-> NilErr]
    /\ dotReads = 0

\* no yencReader exists
YIdle ==
    /\ stream = <<>>
    /\ pos = 0
    /\ readHeader = FALSE
    /\ awaitingSpecial = FALSE
    /\ eof = FALSE
    /\ buf = <<>>
    /\ hung = FALSE
    /\ ylast = Observed("none", 0, Y, NoLine, 0, <<>>, NilErr)
    /\ delivered = <<>>
    /\ closed = FALSE
    /\ plain = <<>>

----------------------------------------------------------------------------
\* The overview engine (Conn.Overview).  Its implementation is not among the
\* available sources: the request is modelled from its description, one
\* action per request, and the server by the status it gives each command.
\* The package's tests fix the transcripts below.

Cmd(name, range) == [cmd |-> name, lo |-> range[1], hi |-> range[2]]

\* TestHacks: the three requests, the statuses hackServer gives to the
\* overview commands, and the commands hackClient expects
hackAsked == << <<55010, 55010>>, <<53102, 53102>>, <<59034, 59034>> >>
hackServer == <<500, 500, 224, 500, 224, 500, 224>>
\* a transcript in which the compressed command is tried again by the second request
hackClientRetry ==
    << Cmd("XZVER", hackAsked[1]), Cmd("OVER", hackAsked[1]), Cmd("XOVER", hackAsked[1]),
       Cmd("XZVER", hackAsked[2]), Cmd("OVER", hackAsked[2]), Cmd("XOVER", hackAsked[2]),
       Cmd("OVER", hackAsked[3]) >>
hackClient ==
    << Cmd("XZVER", hackAsked[1]), Cmd("OVER", hackAsked[1]), Cmd("XOVER", hackAsked[1]),
       Cmd("OVER", hackAsked[2]), Cmd("XOVER", hackAsked[2]),
       Cmd("OVER", hackAsked[3]), Cmd("XOVER", hackAsked[3]) >>

\* TestBasics: the request, the statuses basicServer gives to the overview
\* commands, and the commands basicClient expects
basicAsked == << <<10, 11>> >>
basicServer == <<500, 224>>
\* a transcript in which the legacy command is sent although OVER succeeded
basicClientBoth ==
    << Cmd("XZVER", basicAsked[1]), Cmd("OVER", basicAsked[1]), Cmd("XOVER", basicAsked[1]) >>
basicClient ==
    << Cmd("XZVER", basicAsked[1]), Cmd("OVER", basicAsked[1]) >>

\* a 2xx status: success, a body follows
Success(code) == code \div 100 = 2

Ranges == {hackAsked[i] : i \in 1..Len(hackAsked)} \cup {basicAsked[1]}
Statuses == {hackServer[i] : i \in 1..Len(hackServer)}

\* the commands a request may send, in order
Variants(cache) ==
    (IF cache = "unsupported" THEN <<>> ELSE <<"XZVER">>) \o <<"OVER", "XOVER">>

\* the commands a request sends when the server gives the status st[c] to
\* command c: each one until the first success
RECURSIVE Attempts(_, _)
Attempts(names, st) ==
    IF names = <<>> THEN <<>>
    ELSE IF Success(st[Head(names)]) THEN <<Head(names)>>
    ELSE <<Head(names)>> \o Attempts(Tail(names), st)

\* Overview(lo, hi) with range = <<lo, hi>>; st gives the server's status for
\* each command, body the records of the body it sends after the success
Overview(range, st, body) ==
    /\ Len(asked) < MaxRequests
    /\ LET tried == Attempts(Variants(xzver), st)
           codes == [i \in 1..Len(tried) |-> st[tried[i]]]
           final == codes[Len(codes)]
       IN  /\ asked' = Append(asked, range)
           /\ sent' = sent \o [i \in 1..Len(tried) |-> Cmd(tried[i], range)]
           /\ answers' = answers \o codes
           /\ xzver' = IF tried[1] = "XZVER" /\ ~Success(codes[1]) THEN "unsupported" ELSE xzver
           /\ olast' = [range |-> range, cache0 |-> xzver, first |-> Len(sent) + 1,
                        ok |-> Success(final),
                        from |-> IF Success(final) THEN tried[Len(tried)] ELSE "",
                        records |-> IF Success(final) THEN body ELSE <<>>,
                        err |-> IF Success(final) THEN 0 ELSE final]
    /\ UNCHANGED <<yvars, zvars, dvars, pvars>>

\* the bodies a server may send for a range: no record, or the record of the
\* first article
BodiesFor(range) == {<<>>, <<range[1]>>}

OInit ==
    /\ xzver = "unknown"
    /\ asked = <<>>
    /\ sent = <<>>
    /\ answers = <<>>
    /\ olast = [range |-> <<0, 0>>, cache0 |-> "unknown", first |-> 1, ok |-> FALSE,
                from |-> "", records |-> <<>>, err |-> 0]

ONext ==
    \E range \in Ranges, st \in [{"XZVER", "OVER", "XOVER"} -> Statuses] :
        \E body \in BodiesFor(range) : Overview(range, st, body)

----------------------------------------------------------------------------
\* The multiline body reader.  Its implementation is not part of the
\* available sources; it is modelled from its description, line by line (a
\* line is what the line channel returns: the bytes without the terminator),
\* and compared with the article body the package's test expects.

\* the line "."
DotLine == <<46>>

\* the sender's escaping: a content line that begins with "." gets one more
stuff(line) == IF HasPrefix(line, DotLine) THEN DotLine \o line ELSE line

\* a reader that hands every content line over as it came
unstuffNothing(line) == line

\* the reader's unescaping: a content line that begins with ".." loses its
\* first byte
unstuff(line) == IF HasPrefix(line, <<46, 46>>) THEN Tail(line) ELSE line

\* one readLine() of the body reader
DotReadLine ==
    /\ ~dotEOF
    /\ lpos < Len(article.wire)
    /\ LET line == article.wire[lpos + 1]
       IN  /\ lpos' = lpos + 1
           /\ IF line = DotLine
              THEN dotEOF' = TRUE /\ dbody' = dbody
              ELSE dotEOF' = FALSE /\ dbody' = Append(dbody, unstuff(line))
           /\ dlast' = [op |-> "Read", lpos0 |-> lpos, line |-> line]
    /\ UNCHANGED <<article, yvars, zvars, ovars, pvars>>

\* the index of the first terminator line of the wire after n lines (0: none)
NextDot(n) ==
    LET dots == {i \in (n + 1)..Len(article.wire) : article.wire[i] = DotLine}
    IN  IF dots = {} THEN 0 ELSE CHOOSE k \in dots : \A m \in dots : k <= m

\* closing the reader: the lines up to and including the terminator are
\* consumed and discarded
DotClose ==
    /\ NextDot(lpos) > 0 \/ dotEOF
    /\ lpos' = IF dotEOF THEN lpos ELSE NextDot(lpos)
    /\ dotEOF' = TRUE
    /\ dlast' = [op |-> "Close", lpos0 |-> lpos, line |-> <<>>]
    /\ UNCHANGED <<article, dbody, yvars, zvars, ovars, pvars>>

\* The body of article 1 as basicServer sends it, and as TestBasics expects
\* ioutil.ReadAll to return it (one entry per "\n"-ended line)
basicArticleWire ==
    << <<66, 108, 97, 104, 44, 32, 98, 108, 97, 104, 46>>,
       <<46, 46, 65, 32, 115, 105, 110, 103, 108, 101, 32, 108, 101, 97, 100, 105, 110, 103, 32, 46>>,
       <<70, 105, 110, 46>>,
       DotLine >>
\* the expected body with the escaped line left as it was sent
expectedbodyStuffed ==
    << <<66, 108, 97, 104, 44, 32, 98, 108, 97, 104, 46>>,
       <<46, 46, 65, 32, 115, 105, 110, 103, 108, 101, 32, 108, 101, 97, 100, 105, 110, 103, 32, 46>>,
       <<70, 105, 110, 46>> >>
expectedbody ==
    << <<66, 108, 97, 104, 44, 32, 98, 108, 97, 104, 46>>,
       <<46, 65, 32, 115, 105, 110, 103, 108, 101, 32, 108, 101, 97, 100, 105, 110, 103, 32, 46>>,
       <<70, 105, 110, 46>> >>

\* content lines a sender may mean: "", ".", "..", ".A", "A"
BodyLines == {<<>>, <<46>>, <<46, 46>>, <<46, 65>>, <<65>>}
Bodies == UNION {[1..n -> BodyLines] : n \in 0..MaxBodyLines}
\* what follows the terminator on the connection: nothing, or the next
\* response, here one that ends with a terminator of its own
AfterBody == {<<>>, <<<<50, 50, 52>>, DotLine>>}
Articles ==
    {[sent |-> b, wire |-> [i \in 1..Len(b) |-> stuff(b[i])] \o <<DotLine>> \o f] :
         b \in Bodies, f \in AfterBody}
    \cup {[sent |-> expectedbody, wire |-> basicArticleWire \o f] : f \in AfterBody}

DInit ==
    /\ article \in Articles
    /\ lpos = 0
    /\ dbody = <<>>
    /\ dotEOF = FALSE
    /\ dlast = [op |-> "none", lpos0 |-> 0, line |-> <<>>]

DNext ==
    \/ DotReadLine
    \/ DotClose

\* no body is being read
DIdle ==
    /\ article = [sent |-> <<>>, wire |-> <<>>]
    /\ lpos = 0
    /\ dbody = <<>>
    /\ dotEOF = FALSE
    /\ dlast = [op |-> "none", lpos0 |-> 0, line |-> <<>>]

\* no overview line is being parsed
PIdle ==
    /\ oline = <<>>
    /\ orec = [state |-> "none"]

----------------------------------------------------------------------------
\* The overview record parser.  Its implementation is not part of the
\* available sources; it is modelled from its description (the record parsing
\* rule), byte by byte, and compared with the records the package's tests
\* expect.  A line is what the body reader hands over: bytes without the
\* line terminator.

\* the pieces of s between the bytes sep, empty pieces included
RECURSIVE Split(_, _)
Split(s, sep) ==
    LET idx == {i \in 1..Len(s) : s[i] = sep}
    IN  IF idx = {} THEN <<s>>
        ELSE LET i == CHOOSE k \in idx : \A m \in idx : k <= m
             IN  <<SubSeq(s, 1, i - 1)>> \o Split(SubSeq(s, i + 1, Len(s)), sep)

NonEmpty(t) == t # <<>>
\* the tokens of s between spaces, empty tokens dropped
Tokens(s) == SelectSeq(Split(s, 32), NonEmpty)

IsDigits(f) == f # <<>> /\ \A i \in 1..Len(f) : f[i] \in 48..57
RECURSIVE Value(_)
Value(f) == IF f = <<>> THEN 0 ELSE Value(SubSeq(f, 1, Len(f) - 1)) * 10 + (f[Len(f)] - 48)

\* a byte or line count: the number, or 0 for an empty or unparsable column
Count(f) == IF IsDigits(f) THEN Value(f) ELSE 0

\* column i (from 0) of the columns fs, empty when the line is too short
Column(fs, i) == IF i + 1 <= Len(fs) THEN fs[i + 1] ELSE <<>>

MonthNames ==
    << <<74, 97, 110>>,
       <<70, 101, 98>>,
       <<77, 97, 114>>,
       <<65, 112, 114>>,
       <<77, 97, 121>>,
       <<74, 117, 110>>,
       <<74, 117, 108>>,
       <<65, 117, 103>>,
       <<83, 101, 112>>,
       <<79, 99, 116>>,
       <<78, 111, 118>>,
       <<68, 101, 99>> >>

ZeroTime == [year |-> 1, month |-> 1, day |-> 1, hour |-> 0, min |-> 0, sec |-> 0, zone |-> 0]

\* the legacy date formats: "[Www, ]D Mon YYYY HH:MM:SS +ZZZZ[ (ZONE)]";
\* anything else is the zero timestamp
ParseDate(f) ==
    LET g == IF Len(f) >= 5 /\ f[4] = 44 /\ f[5] = 32 THEN SubSeq(f, 6, Len(f)) ELSE f
        t == Tokens(g)
        hms == IF Len(t) >= 4 THEN Split(t[4], 58) ELSE <<>>
        mon == IF Len(t) >= 2 THEN {m \in 1..12 : MonthNames[m] = t[2]} ELSE {}
    IN  IF /\ Len(t) \in {5, 6}
           /\ IsDigits(t[1]) /\ mon # {} /\ IsDigits(t[3]) /\ Len(t[3]) = 4
           /\ Len(hms) = 3 /\ \A i \in 1..3 : IsDigits(hms[i]) /\ Len(hms[i]) = 2
           /\ Len(t[5]) = 5 /\ t[5][1] \in {43, 45} /\ IsDigits(Tail(t[5]))
        THEN [year |-> Value(t[3]), month |-> CHOOSE m \in mon : TRUE, day |-> Value(t[1]),
              hour |-> Value(hms[1]), min |-> Value(hms[2]), sec |-> Value(hms[3]),
              zone |-> (IF t[5][1] = 45 THEN -1 ELSE 1)
                         * (Value(SubSeq(t[5], 2, 3)) * 3600 + Value(SubSeq(t[5], 4, 5)) * 60)]
        ELSE ZeroTime

\* the record of one overview line, by the record parsing rule
parseOverview(line) ==
    LET fs == Split(line, 9)
    IN  IF ~IsDigits(fs[1]) THEN [state |-> "malformed"]
        ELSE [state |-> "parsed",
              MessageNumber |-> Value(fs[1]),
              Subject |-> Column(fs, 1),
              From |-> Column(fs, 2),
              Date |-> ParseDate(Column(fs, 3)),
              MessageId |-> Column(fs, 4),
              References |-> Tokens(Column(fs, 5)),
              Bytes |-> Count(Column(fs, 6)),
              Lines |-> Count(Column(fs, 7)),
              Extra |-> SubSeq(fs, 9, Len(fs))]

\* the parser is given the line and returns
ParseLine ==
    /\ orec.state = "none"
    /\ orec' = parseOverview(oline)
    /\ UNCHANGED <<oline, yvars, zvars, ovars, dvars>>

\* The overview lines of hackServer, with every message-id shortened to
\* "<a>", "<b>", ..., the subject to "S", the sender to "F <f@g>" and the
\* Xref column to "Xref: x"; the numbers, the dates and every tab and space
\* are those of the source.
\* record 55010: the references column holds tabs between its message-ids
hackLine55010 ==
    <<53, 53, 48, 49, 48, 9, 83, 9, 70, 32, 60, 102, 64, 103, 62, 9, 77, 111,
      110, 44, 32, 56, 32, 74, 117, 110, 32, 50, 48, 48, 57, 32, 48, 54, 58,
      50, 55, 58, 52, 49, 32, 45, 48, 55, 48, 48, 32, 40, 80, 68, 84, 41, 9,
      60, 97, 62, 9, 60, 98, 62, 32, 60, 99, 62, 32, 9, 60, 100, 62, 32, 60,
      101, 62, 32, 9, 60, 102, 62, 32, 60, 103, 62, 32, 9, 60, 104, 62, 32,
      60, 105, 62, 32, 9, 60, 106, 62, 32, 60, 107, 62, 32, 9, 60, 108, 62,
      9, 49, 57, 51, 53, 9, 53, 53, 9, 88, 114, 101, 102, 58, 32, 120>>

\* record 53102: the references column holds tabs and empty columns
hackLine53102 ==
    <<53, 51, 49, 48, 50, 9, 83, 9, 70, 32, 60, 102, 64, 103, 62, 9, 83, 97,
      116, 44, 32, 49, 49, 32, 79, 99, 116, 32, 50, 48, 48, 56, 32, 48, 48,
      58, 49, 48, 58, 50, 52, 32, 43, 48, 49, 48, 48, 9, 60, 97, 62, 9, 60,
      98, 62, 32, 60, 99, 62, 32, 9, 9, 60, 100, 62, 32, 60, 101, 62, 32, 9,
      9, 60, 102, 62, 32, 60, 103, 62, 32, 9, 9, 60, 104, 62, 32, 60, 105,
      62, 9, 49, 53, 53, 56, 9, 50, 55, 9, 88, 114, 101, 102, 58, 32, 120>>

\* record 59034: the line count is empty
hackLine59034 ==
    <<53, 57, 48, 51, 52, 9, 83, 9, 70, 32, 60, 102, 64, 103, 62, 9, 83, 97,
      116, 44, 32, 49, 32, 83, 101, 112, 32, 50, 48, 49, 50, 32, 48, 53, 58,
      48, 56, 58, 49, 56, 32, 45, 48, 55, 48, 48, 32, 40, 80, 68, 84, 41, 9,
      60, 97, 62, 9, 60, 98, 62, 9, 49, 51, 57, 48, 9, 9, 88, 114, 101, 102,
      58, 32, 120>>

\* the references TestHacks expects of record 55010
expectedReferences ==
    << <<60, 98, 62>>,
       <<60, 99, 62>>,
       <<60, 100, 62>>,
       <<60, 101, 62>>,
       <<60, 102, 62>>,
       <<60, 103, 62>>,
       <<60, 104, 62>>,
       <<60, 105, 62>>,
       <<60, 106, 62>>,
       <<60, 107, 62>>,
       <<60, 108, 62>> >>

basicLine10 ==
    <<49, 48, 9, 83, 117, 98, 106, 101, 99, 116, 49, 48, 9, 65, 117, 116,
      104, 111, 114, 32, 60, 97, 117, 116, 104, 111, 114, 64, 115, 101, 114,
      118, 101, 114, 62, 9, 83, 97, 116, 44, 32, 49, 56, 32, 79, 99, 116, 32,
      50, 48, 48, 51, 32, 49, 56, 58, 48, 48, 58, 48, 48, 32, 43, 48, 48, 51,
      48, 9, 60, 100, 64, 101, 46, 102, 62, 9, 9, 49, 48, 48, 48, 9, 57>>

basicLine11 ==
    <<49, 49, 9, 83, 117, 98, 106, 101, 99, 116, 49, 49, 9, 9, 49, 56, 32,
      79, 99, 116, 32, 50, 48, 48, 51, 32, 49, 57, 58, 48, 48, 58, 48, 48,
      32, 43, 48, 48, 51, 48, 9, 60, 101, 64, 102, 46, 103, 62, 9, 60, 100,
      64, 101, 46, 102, 62, 32, 60, 97, 64, 98, 46, 99, 62, 9, 50, 48, 48,
      48, 9, 49, 56, 9, 69, 120, 116, 114, 97, 32, 115, 116, 117, 102, 102>>

\* the records TestBasics expects of the two lines of basicServer
expectedOverviewsNoExtra ==
    << [state |-> "parsed", MessageNumber |-> 10, Subject |-> <<83, 117, 98, 106, 101, 99, 116, 49, 48>>,
        From |-> <<65, 117, 116, 104, 111, 114, 32, 60, 97, 117, 116, 104, 111, 114, 64, 115, 101, 114, 118, 101, 114, 62>>, Date |-> [year |-> 2003, month |-> 10, day |-> 18,
        hour |-> 18, min |-> 0, sec |-> 0, zone |-> 1800], MessageId |-> <<60, 100, 64, 101, 46, 102, 62>>,
        References |-> <<>>, Bytes |-> 1000, Lines |-> 9, Extra |-> <<>>],
       [state |-> "parsed", MessageNumber |-> 11, Subject |-> <<83, 117, 98, 106, 101, 99, 116, 49, 49>>,
        From |-> <<>>, Date |-> [year |-> 2003, month |-> 10, day |-> 18,
        hour |-> 19, min |-> 0, sec |-> 0, zone |-> 1800], MessageId |-> <<60, 101, 64, 102, 46, 103, 62>>,
        References |-> <<<<60, 100, 64, 101, 46, 102, 62>>, <<60, 97, 64, 98, 46, 99, 62>>>>, Bytes |-> 2000, Lines |-> 18, Extra |-> <<>>] >>
expectedOverviews ==
    << [state |-> "parsed", MessageNumber |-> 10, Subject |-> <<83, 117, 98, 106, 101, 99, 116, 49, 48>>,
        From |-> <<65, 117, 116, 104, 111, 114, 32, 60, 97, 117, 116, 104, 111, 114, 64, 115, 101, 114, 118, 101, 114, 62>>, Date |-> [year |-> 2003, month |-> 10, day |-> 18,
        hour |-> 18, min |-> 0, sec |-> 0, zone |-> 1800], MessageId |-> <<60, 100, 64, 101, 46, 102, 62>>,
        References |-> <<>>, Bytes |-> 1000, Lines |-> 9, Extra |-> <<>>],
       [state |-> "parsed", MessageNumber |-> 11, Subject |-> <<83, 117, 98, 106, 101, 99, 116, 49, 49>>,
        From |-> <<>>, Date |-> [year |-> 2003, month |-> 10, day |-> 18,
        hour |-> 19, min |-> 0, sec |-> 0, zone |-> 1800], MessageId |-> <<60, 101, 64, 102, 46, 103, 62>>,
        References |-> <<<<60, 100, 64, 101, 46, 102, 62>>, <<60, 97, 64, 98, 46, 99, 62>>>>, Bytes |-> 2000, Lines |-> 18,
        Extra |-> <<<<69, 120, 116, 114, 97, 32, 115, 116, 117, 102, 102>>>>] >>

\* Lines put together column by column: the article number "7" or the
\* malformed "x"; a date of basicServer, no date or "junk"; a references
\* column that is empty, holds one or two message-ids, or holds a tab between
\* two; a byte count "12", none or "1k"; a line count "9" or none; up to
\* MaxExtra further columns ("X" or empty); and the same lines cut short
\* after any column.
Join(fs) == IF fs = <<>> THEN <<>> ELSE Head(fs) \o Flatten([i \in 1..(Len(fs) - 1) |-> <<9>> \o fs[i + 1]])
ExtraColumns == UNION {[1..n -> {<<88>>, <<>>}] : n \in 0..MaxExtra}
BuiltColumns ==
    {<<n, <<83>>, <<70>>, d, <<60, 109, 62>>, r, b, l>> \o x :
        n \in {<<55>>, <<120>>},
        d \in {Column(Split(basicLine10, 9), 3), <<>>, <<106, 117, 110, 107>>},
        r \in {<<>>, <<60, 97, 62>>, <<60, 97, 62, 32, 60, 98, 62>>,
               <<60, 97, 62, 32, 9, 60, 98, 62>>},
        b \in {<<49, 50>>, <<>>, <<49, 107>>},
        l \in {<<57>>, <<>>},
        x \in ExtraColumns}
OverviewLines ==
    UNION {{Join(SubSeq(c, 1, k)) : k \in 1..Len(c)} : c \in BuiltColumns}
    \cup {basicLine10, basicLine11, hackLine55010, hackLine53102, hackLine59034}

PInit ==
    /\ oline \in OverviewLines
    /\ orec = [state |-> "none"]

PNext == ParseLine

----------------------------------------------------------------------------
\* Specifications: one per component, the other components at rest

InitYenc == YInit /\ ZIdle /\ OInit /\ DIdle /\ PIdle
InitDecode == DecodeInit /\ ZIdle /\ OInit /\ DIdle /\ PIdle
InitRoundTrip == RoundTripInit /\ ZIdle /\ OInit /\ DIdle /\ PIdle
InitZlib == ZInit /\ YIdle /\ OInit /\ DIdle /\ PIdle
InitOverview == OInit /\ YIdle /\ ZIdle /\ DIdle /\ PIdle
InitDot == DInit /\ YIdle /\ ZIdle /\ OInit /\ PIdle
InitParse == PInit /\ YIdle /\ ZIdle /\ OInit /\ DIdle

SpecYenc == InitYenc /\ [][YNext]_vars
SpecDecode == InitDecode /\ [][YNext]_vars
SpecRoundTrip == InitRoundTrip /\ [][YNext]_vars
SpecZlib == InitZlib /\ [][ZNext]_vars
SpecOverview == InitOverview /\ [][ONext]_vars
SpecDot == InitDot /\ [][DNext]_vars
SpecParse == InitParse /\ [][PNext]_vars

----------------------------------------------------------------------------
\* Properties of the zlibDotResponse

\* the terminator lines: "." and a line ending
DotLines == {<<46>> \o CRLF, <<46>> \o JustLF}
\* the compressed stream is whole and a terminator line follows it
WellFormed == wire.kind = "valid" /\ wire.term \in DotLines
\* where the compressed stream ends and where the terminator line ends
ZEnd == Len(wire.z)
DotEnd == Len(wire.z) + Len(wire.term)

\* C2 (as claimed): the first Close() of a reader on a well-formed response
\* leaves the clear stream right after the "." line, however little of the
\* decompressed output was read before.
C2_CompressedDrainOnClose ==
    (zlast.op = "Close" /\ ~zlast.dot0 /\ WellFormed) => cpos = DotEnd

\* C5: once the decompressed output is read to its end the clear stream stands
\* at the end of the compressed stream, no byte of the terminator line taken,
\* and the output is the body; Close() then finds the "." line, returns no
\* error and leaves the stream at the first byte of what follows.
C5_TwoPhaseClose ==
    /\ (zopen = "open" /\ ~dotWasRead /\ zerr = EOFErr /\ rbuf = <<>>) =>
           (cpos = ZEnd /\ zdata = wire.body)
    /\ (zlast.op = "Close" /\ ~zlast.dot0 /\ zlast.zerr0 = EOFErr /\ zlast.rbuf0 = <<>>
            /\ wire.term \in DotLines) =>
           (zlast.cpos0 = ZEnd /\ zlast.err = NilErr /\ cpos = DotEnd)

\* a two-block body was read to its end and the reader closed, with the next
\* response waiting behind the terminator line
C5_Witness ==
    /\ zlast.op = "Close" /\ ~zlast.dot0 /\ zlast.zerr0 = EOFErr /\ zlast.rbuf0 = <<>>
    /\ Len(zdata) = 4 /\ wire.next # <<>>
    /\ zlast.err = NilErr /\ cpos = DotEnd

\* the line feed ending the first complete line of clear after position p (0: none)
ClearNextLF(p) ==
    LET after == {i \in (p + 1)..Len(clear) : clear[i] = 10}
    IN  IF after = {} THEN 0 ELSE CHOOSE k \in after : \A m \in after : k <= m
\* the raw line is "." followed by nothing but its line ending
IsDotLine(raw) ==
    /\ Len(raw) >= 2 /\ raw[1] = 46
    /\ \A i \in 2..Len(raw) : raw[i] \in {13, 10}

\* C6: the first Close() reads one line of the clear stream: it returns nil
\* exactly when that line is ".", a ProtocolError naming the line when it is
\* anything else, and the error of the read when no line can be read.
C6_TerminatorCheck ==
    (zlast.op = "Close" /\ ~zlast.dot0) =>
        LET e == ClearNextLF(zlast.cpos0)
            raw == SubSeq(clear, zlast.cpos0 + 1, e)
        IN  /\ dotWasRead
            /\ IF e = 0 THEN zlast.err = EOFErr /\ cpos = Len(clear)
               ELSE /\ cpos = e
                    /\ IsDotLine(raw) => zlast.err = NilErr
                    /\ ~IsDotLine(raw) => zlast.err = ProtocolError(raw)

\* a fully read body was followed by the line "..", which Close() reported
C6_Witness ==
    /\ zlast.op = "Close" /\ ~zlast.dot0 /\ zlast.zerr0 = EOFErr
    /\ zlast.err = ProtocolError(<<46, 46>> \o CRLF)

\* C7 (as claimed): when finalizing the decompression filter in Close()
\* reports a decode error, Close() fails with that error.
C7_CloseDecodeError ==
    (zlast.op = "Close" /\ zlast.zret \in DecodeErrors) => zlast.err = zlast.zret

----------------------------------------------------------------------------
\* Properties of the overview engine

IsPrefix(a, b) == Len(a) <= Len(b) /\ a = SubSeq(b, 1, Len(a))

\* the commands and statuses of the last request
LastCmds == SubSeq(sent, olast.first, Len(sent))
LastCodes == SubSeq(answers, olast.first, Len(answers))

\* C3: after the compressed-overview command got a failure status no later
\* command on the connection is the compressed-overview command, while every
\* later request starts afresh with OVER and, when that fails, goes on to
\* XOVER; against the server of TestHacks the commands are those the test
\* expects.
C3_CapabilityCaching ==
    /\ \A i, j \in 1..Len(sent) :
           (i < j /\ sent[i].cmd = "XZVER" /\ ~Success(answers[i])) => sent[j].cmd # "XZVER"
    /\ (xzver = "unsupported") <=>
           (\E i \in 1..Len(sent) : sent[i].cmd = "XZVER" /\ ~Success(answers[i]))
    /\ (Len(asked) > 0 /\ olast.cache0 = "unsupported") =>
           /\ LastCmds[1] = Cmd("OVER", olast.range)
           /\ ~Success(LastCodes[1]) =>
                  (Len(LastCmds) = 2 /\ LastCmds[2] = Cmd("XOVER", olast.range))
    /\ (IsPrefix(asked, hackAsked) /\ IsPrefix(answers, hackServer)) => IsPrefix(sent, hackClient)

\* the three requests of TestHacks were made against its server
C3_Witness ==
    /\ asked = hackAsked /\ answers = hackServer /\ sent = hackClient
    /\ xzver = "unsupported" /\ olast.cache0 = "unsupported" /\ olast.from = "XOVER"

\* C4: the commands of one request are a prefix of [XZVER unless cached as
\* unsupported, OVER, XOVER], all for the requested range; each but the last
\* got a failure status; after a success nothing more is sent and its body
\* gives the records; after a failure of the last variant the request fails
\* with that status; against the server of TestBasics the commands are those
\* the test expects.
C4_FallbackOrder ==
    /\ Len(sent) = Len(answers)
    /\ Len(asked) > 0 =>
        LET expected == IF olast.cache0 = "unsupported" THEN <<"OVER", "XOVER">>
                        ELSE <<"XZVER", "OVER", "XOVER">>
            n == Len(LastCmds)
        IN  /\ n >= 1 /\ n <= Len(expected)
            /\ \A k \in 1..n : LastCmds[k] = Cmd(expected[k], olast.range)
            /\ \A k \in 1..(n - 1) : ~Success(LastCodes[k])
            /\ IF Success(LastCodes[n])
               THEN olast.ok /\ olast.from = expected[n] /\ olast.err = 0
               ELSE n = Len(expected) /\ ~olast.ok /\ olast.err = LastCodes[n] /\ olast.records = <<>>
    /\ (asked = basicAsked /\ answers = basicServer) => sent = basicClient

\* the request of TestBasics: XZVER failed, OVER succeeded and gave a record
C4_Witness ==
    /\ asked = basicAsked /\ answers = basicServer /\ sent = basicClient
    /\ olast.ok /\ olast.from = "OVER" /\ olast.records = <<10>>

----------------------------------------------------------------------------
\* Properties of the yencReader

\* the positions of the line feeds of the stream
LFs == {i \in 1..Len(stream) : stream[i] = 10}
\* the raw line ending at the line feed e
RawLineEnding(e) ==
    LET before == {i \in LFs : i < e}
        start == IF before = {} THEN 1 ELSE 1 + CHOOSE k \in before : \A m \in before : m <= k
    IN  SubSeq(stream, start, e)
\* the line feed ending the first complete line after position p (0: none)
NextLF(p) ==
    LET after == {i \in LFs : i > p}
    IN  IF after = {} THEN 0 ELSE CHOOSE k \in after : \A m \in after : k <= m
\* a raw line without its line ending (LF, or CR LF)
Chomp(raw) ==
    LET n == Len(raw)
    IN  IF n >= 2 /\ raw[n - 1] = 13 THEN SubSeq(raw, 1, n - 2) ELSE SubSeq(raw, 1, n - 1)

YbeginLFs == {e \in LFs : HasPrefix(RawLineEnding(e), YBEGIN)}
\* end of the first "=ybegin" line (0: none)
HeaderEnd == IF YbeginLFs = {} THEN 0 ELSE CHOOSE k \in YbeginLFs : \A m \in YbeginLFs : k <= m
YendLFs == {e \in LFs : HeaderEnd > 0 /\ e > HeaderEnd /\ HasPrefix(RawLineEnding(e), YEND)}
\* the stream holds a "=ybegin" line and, later, a "=yend" line
HasPart == YendLFs # {}
\* end of the first "=yend" line after the header
PartEnd == CHOOSE k \in YendLFs : \A m \in YendLFs : k <= m

\* C1: on a stream that holds a "=ybegin" line followed later by a "=yend"
\* line, Close() called in any state returns, and when it returns the stream
\* is consumed up to and including the first such "=yend" line and no further.
C1_DrainOnClose ==
    (ylast.op = "Close" /\ HasPart) => (~hung /\ eof /\ pos = PartEnd)

\* Close() was called with decoded bytes still undelivered and the trailer
\* still unread, and a further line follows the "=yend" line
C1_Witness ==
    /\ ylast.op = "Close" /\ HasPart
    /\ Len(ylast.y0.buf) > 0 /\ ylast.y0.r < PartEnd
    /\ pos = PartEnd /\ NextLF(pos) > 0

\* C8: a Read before the header was seen that consumes a line not starting
\* with "=ybegin" fails with the format error naming that line, yields no
\* bytes, leaves the decoder waiting for the header and consumes nothing
\* beyond that line; a line starting with "=ybegin" makes it Decoding, again
\* without bytes.
C8_HeaderRequirement ==
    (ylast.op = "Read" /\ ~ylast.y0.readHeader /\ NextLF(ylast.y0.r) > 0) =>
        LET e == NextLF(ylast.y0.r)
            raw == RawLineEnding(e)
        IN  /\ pos = e
            /\ ylast.n = 0 /\ ylast.out = <<>> /\ buf = <<>>
            /\ IF HasPrefix(raw, YBEGIN)
               THEN ylast.err = NilErr /\ readHeader /\ ~eof
               ELSE ylast.err = FormatErr(Chomp(raw)) /\ ~readHeader /\ ~eof

\* a Read rejected a first line, here one that begins like the trailer
C8_Witness ==
    /\ ylast.op = "Read" /\ ~ylast.y0.readHeader
    /\ ylast.err.kind = "format" /\ HasPrefix(ylast.err.line, YEND)
    /\ ~readHeader /\ pos = NextLF(ylast.y0.r)

\* C9 (as claimed): once a "=yend" line was consumed, every later Read returns
\* end-of-data with zero bytes and no later Read or Close consumes anything.
C9_DoneIsFinal ==
    (ylast.op \in {"Read", "Close"} /\ ylast.y0.eof) =>
        /\ pos = ylast.y0.r
        /\ ylast.op = "Read" => (ylast.n = 0 /\ ylast.err = EOFErr)

\* the number of '=' bytes that end the line
TrailingEq(line) ==
    LET other == {i \in 1..Len(line) : line[i] # 61}
    IN  IF other = {} THEN Len(line)
        ELSE Len(line) - CHOOSE k \in other : \A m \in other : m <= k
\* the line, entered with escape bit esc, ends with an unpaired escape marker
Unpaired(line, esc) ==
    LET r == TrailingEq(line)
    IN  IF esc /\ r = Len(line)
        THEN (IF r = 0 THEN TRUE ELSE (r - 1) % 2 = 1)
        ELSE r % 2 = 1

\* C10: the escape bit left by a data line is set exactly when the line ends
\* with an unpaired '=', and a data line entered with the bit set has its
\* first byte decoded as (byte - 42 - 64) mod 256, whatever that byte is.
C10_EscapeAcrossLines ==
    (ylast.op = "Read" /\ ylast.kind = "data") =>
        LET line == Chomp(RawLineEnding(NextLF(ylast.y0.r)))
        IN  /\ awaitingSpecial = Unpaired(line, ylast.y0.awaitingSpecial)
            /\ (ylast.y0.awaitingSpecial /\ Len(line) > 0) =>
                   /\ ylast.n >= 1
                   /\ ylast.out[1] = (line[1] + 512 - 42 - 64) % 256

\* a data line was entered with the escape bit set and begins with '=',
\* which came out as the byte 211
C10_Witness ==
    /\ ylast.op = "Read" /\ ylast.kind = "data"
    /\ ylast.y0.awaitingSpecial
    /\ ylast.line # <<>> /\ ylast.line[1] = 61
    /\ ylast.n >= 1 /\ ylast.out[1] = 211

----------------------------------------------------------------------------
\* Properties of the yEnc decoder, continued

\* C15 (as claimed): Close() returns on every stream: a read of the stream
\* that fails inside Close() is not retried, so no Close() is left spinning.
C15_CloseTerminates ==
    ylast.op = "Close" => ~hung

\* C19: in every state reached by any interleaving of Read and Close, eof
\* implies readHeader, a non-empty buf implies readHeader and a pending escape
\* implies readHeader; and no call turns readHeader or eof from true to false
\* (the reader only moves AwaitingHeader -> Decoding -> Done).
C19_StateMachine ==
    /\ eof => readHeader
    /\ buf # <<>> => readHeader
    /\ awaitingSpecial => readHeader
    /\ ylast.y0.readHeader => readHeader
    /\ ylast.y0.eof => eof

\* a Close() made in Decoding, after a Read took the header, that ends in
\* Done with bytes still buffered and an escape pending: all three
\* antecedents hold at once
C19_Witness ==
    /\ ylast.op = "Close"
    /\ ylast.y0.readHeader /\ ~ylast.y0.eof
    /\ eof /\ readHeader /\ buf # <<>> /\ awaitingSpecial

\* the number of '=' bytes that stand immediately before index i of the line
RunBefore(line, i) ==
    LET other == {j \in 1..(i - 1) : line[j] # 61}
    IN  IF other = {} THEN i - 1
        ELSE i - 1 - CHOOSE k \in other : \A m \in other : m <= k
\* byte i of a line entered with escape bit esc is consumed as an escape
\* marker: it is '=' and an even number of the '=' before it are unpaired
IsMarker(line, esc, i) ==
    /\ line[i] = 61
    /\ LET k == RunBefore(line, i)
       IN  IF esc /\ k = i - 1 THEN k % 2 = 1 ELSE k % 2 = 0
\* byte i is read while the escape bit is set
IsEscaped(line, esc, i) ==
    IF i = 1 THEN esc ELSE IsMarker(line, esc, i - 1)
DataPositions(line, esc) == {i \in 1..Len(line) : ~IsMarker(line, esc, i)}
\* the k-th smallest member of a set of naturals
Kth(S, k) == CHOOSE i \in S : Cardinality({j \in S : j <= i}) = k

\* C16: a data line decodes to as many bytes as it has, less one for every
\* '=' read while no escape is pending, and so never to more; every other
\* byte, a '=' read while the escape is pending included, yields one byte
\* (byte - 42, and - 64 more when it is read with the escape pending), in order.
C16_DecodedLength ==
    (ylast.op = "Read" /\ ylast.kind = "data") =>
        LET line == Chomp(RawLineEnding(NextLF(ylast.y0.r)))
            esc == ylast.y0.awaitingSpecial
            dec == ylast.out \o buf
            data == DataPositions(line, esc)
        IN  /\ Len(dec) <= Len(line)
            /\ Len(dec) = Len(line) - Cardinality({i \in 1..Len(line) : IsMarker(line, esc, i)})
            /\ \A k \in 1..Len(dec) :
                   LET i == Kth(data, k)
                   IN  dec[k] = (line[i] + 512 - 42
                                   - (IF IsEscaped(line, esc, i) THEN 64 ELSE 0)) % 256

\* a data line of MaxLen bytes entered with the escape pending that begins
\* with "==": the first '=' came out as the byte 211, the second was a marker
C16_Witness ==
    /\ ylast.op = "Read" /\ ylast.kind = "data"
    /\ ylast.y0.awaitingSpecial
    /\ Len(ylast.line) = MaxLen
    /\ ylast.line[1] = 61 /\ ylast.line[2] = 61
    /\ ylast.n >= 1 /\ ylast.out[1] = 211
    /\ ylast.n + Len(buf) < MaxLen

\* the data lines of the stream from position p up to position e, decoded
\* line by line with the escape bit carried over, up to the first line that
\* starts with "=yend"
RECURSIVE DecodedLines(_, _, _)
DecodedLines(p, e, esc) ==
    IF p >= e THEN <<>>
    ELSE LET rd == ReadBytes(stream, p)
             line == TrimRight(rd.line)
             d == decode(line, esc)
         IN  IF rd.err # NilErr \/ HasPrefix(line, YEND) THEN <<>>
             ELSE d.out \o DecodedLines(rd.pos, e, d.esc)
\* the stream starts with a "=ybegin" line and holds a "=yend" line later
WellFormedPart == HasPart /\ HeaderEnd = NextLF(0)

\* C17: on a well-formed part read with Read alone, with buffers of any size
\* from 1 on, the bytes returned so far followed by the bytes still buffered
\* are the decoded data lines consumed so far, in line order; a line is
\* fetched only when nothing is buffered; and when end-of-data is reached
\* nothing is buffered, so the bytes returned are all the decoded data lines
\* between "=ybegin" and "=yend".
C17_ReadChunking ==
    (WellFormedPart /\ ~closed /\ readHeader) =>
        /\ delivered \o buf = DecodedLines(HeaderEnd, pos, FALSE)
        /\ (ylast.op = "Read" /\ ylast.kind # "none") => ylast.y0.buf = <<>>
        /\ eof => /\ buf = <<>>
                  /\ pos = PartEnd
                  /\ delivered = DecodedLines(HeaderEnd, PartEnd, FALSE)

\* end-of-data was reached by Reads alone over two data lines, the first
\* of which left the escape pending, and more bytes were returned in all than
\* the largest buffer holds, so that a decoded line went out in pieces
C17_Witness ==
    /\ WellFormedPart /\ ~closed /\ eof
    /\ ylast.op = "Read" /\ ylast.err = EOFErr
    /\ Chomp(RawLineEnding(NextLF(HeaderEnd))) = <<61>>
    /\ Len(delivered) > MaxP
    /\ delivered = DecodedLines(HeaderEnd, PartEnd, FALSE)

----------------------------------------------------------------------------
\* Properties of the zlibDotResponse, continued

\* C18: over the life of one zlibDotResponse, Close() asks the clear stream
\* for at most one line in all; a Close() made after the first one consumes
\* nothing from the clear stream and returns nil, whatever the first returned.
C18_TerminatorReadOnce ==
    /\ dotReads <= 1
    /\ dotWasRead <=> dotReads = 1
    /\ (zlast.op = "Close" /\ zlast.dot0) =>
           /\ cpos = zlast.cpos0
           /\ zlast.err = NilErr
           /\ dotWasRead

\* a second Close() returned nil after the first one had read the line ".."
\* behind a fully read body and so had failed; the line after it is unread
C18_Witness ==
    /\ zlast.op = "Close" /\ zlast.dot0 /\ zlast.err = NilErr
    /\ dotReads = 1
    /\ wire.kind = "valid" /\ wire.term = <<46, 46>> \o CRLF /\ wire.next # <<>>
    /\ cpos = Len(wire.z) + Len(wire.term)

\* C11: whatever bytes the sender encoded and wherever the encoded bytes are
\* cut into lines, the bytes returned by Read are at every moment the first
\* bytes of what was encoded, and at end-of-data they are exactly what was
\* encoded: decode(encode(b)) = b.  Each of the 256 byte values comes back
\* from its own encoding, also when that encoding is cut after the marker.
C11_RoundTrip ==
    /\ ~closed =>
           /\ IsPrefix(delivered \o buf, plain)
           /\ eof => delivered = plain
    /\ \A b \in (IF pos = 0 THEN 0..255 ELSE {}) :
           LET e == encodeByte(b)
           IN  /\ decode(e, FALSE) = [out |-> <<b>>, esc |-> FALSE]
               /\ Len(e) = 2 =>
                      /\ decode(<<e[1]>>, FALSE) = [out |-> <<>>, esc |-> TRUE]
                      /\ decode(<<e[2]>>, TRUE) = [out |-> <<b>>, esc |-> FALSE]

\* MaxBytes bytes came back, the first of them 19, whose encoding "=}" was
\* cut between the escape marker and the escaped byte
C11_Witness ==
    /\ ~closed /\ eof /\ delivered = plain
    /\ Len(plain) = MaxBytes /\ plain[1] = 19
    /\ SubSeq(stream, Len(LineYbegin) + 1, Len(LineYbegin) + 4) = <<61, 13, 10, 125>>

----------------------------------------------------------------------------
\* Properties of the multiline body reader

\* C12: on a body whose content lines the sender escaped, the lines handed
\* to the caller are at every moment the first lines the sender meant, and
\* all of them once the reader has read up to the terminator; the line "."
\* ends the body, is not handed over, and nothing after it is consumed; and
\* every received content line that begins with "." is handed over without
\* its first byte, so that escaping what was handed over gives the received
\* line again (so "..A single leading ." arrives as ".A single leading .").
C12_DotStuffingRoundTrip ==
    /\ IsPrefix(dbody, article.sent)
    /\ dotEOF =>
           /\ lpos = NextDot(0)
           /\ Len(dbody) < lpos
           /\ dlast.op = "Read" => dbody = article.sent
    /\ (dlast.op = "Read" /\ dlast.line # DotLine) =>
           LET got == dbody[Len(dbody)]
           IN  /\ ~dotEOF
               /\ Len(dbody) = lpos
               /\ IF HasPrefix(dlast.line, DotLine)
                  THEN /\ got = Tail(dlast.line)
                       /\ stuff(got) = dlast.line
                  ELSE got = dlast.line

\* the article of TestBasics was read to its end: the second of its three
\* lines came as "..A single leading ." and was handed over with one dot
\* less, and the response that follows the terminator is untouched
C12_Witness ==
    /\ dotEOF /\ dlast.op = "Read" /\ dlast.line = DotLine
    /\ Len(article.wire) > 4 /\ lpos = 4
    /\ SubSeq(article.wire, 1, 4) = basicArticleWire
    /\ HasPrefix(article.wire[2], <<46, 46, 65>>)
    /\ Len(dbody) = 3 /\ dbody[2] = Tail(article.wire[2])

----------------------------------------------------------------------------
\* Properties of the overview record parser

\* the columns of the line given to the parser
Columns == Split(oline, 9)
\* a column made of message-ids: tokens that all begin with '<'
IsIdColumn(f) == Tokens(f) # <<>> /\ \A i \in 1..Len(Tokens(f)) : Tokens(f)[i][1] = 60
\* the columns (from 1) after the references column that still hold message-ids
SpilledColumns == {i \in 7..Len(Columns) : IsIdColumn(Columns[i])}
LastSpilled == CHOOSE k \in SpilledColumns : \A m \in SpilledColumns : m <= k

\* C13 (as claimed): when the references of a line are spread over several
\* columns by tabs inside them, the record still holds every message-id of
\* these columns in References, in order, Bytes and Lines are taken from the
\* two columns that follow the last of them, and the columns after these are
\* the extra fields; for record 55010 of hackServer these are the eleven
\* references TestHacks expects and 1935 bytes.
C13_BrokenReferences ==
    (orec.state # "none" /\ IsDigits(Columns[1]) /\ SpilledColumns # {}) =>
        /\ orec.state = "parsed"
        /\ orec.References =
               Flatten([i \in 1..(LastSpilled - 5) |-> Tokens(Columns[i + 5])])
        /\ orec.Bytes = Count(Column(Columns, LastSpilled))
        /\ orec.Lines = Count(Column(Columns, LastSpilled + 1))
        /\ orec.Extra = SubSeq(Columns, LastSpilled + 3, Len(Columns))
        /\ oline = hackLine55010 =>
               orec.References = expectedReferences /\ orec.Bytes = 1935

====
